---- MODULE Spec2Model ----
(***************************************************************************)
(* Session orchestrator of rstudio-tier: one RStudio workload per user.    *)
(*                                                                         *)
(* Two deployments of the same HTTP API are modelled:                      *)
(*   k3s/api/rpod_api_k8s.py        pods + NodePort services (engine k8s)  *)
(*   back-rpod-setup/api/rpod_api.py  podman containers (engine podman)    *)
(* Each request handler is a process that performs one backend call per    *)
(* step; the cluster (kubelet, clock) moves on its own between the steps.  *)
(***************************************************************************)
EXTENDS Integers, Sequences, FiniteSets, TLC

(* ------------------------------ bounds --------------------------------- *)

\* number of ports of the configured NodePort range
NumPorts == 2
\* the folders of one project grant and the grants of one profile
MaxFolders == 2
MaxGrants == 2

(* ------------------------- program constants --------------------------- *)

NODEPORT_START == 30810
NODEPORT_END == NODEPORT_START + NumPorts - 1
MAX_SESSION_DURATION == 43200
WARNING_SECONDS == 1800
DEFAULT_TIER_PORT == 8810
TIER_PORTS == [tier1 |-> 8810, tier2 |-> 8820, tier3 |-> 8830]

\* Python's None, and a missing port
None == [none |-> TRUE]
NoPort == 0

\* users.yaml: two users of the same tier, and one key with an empty profile
USERS_YAML ==
    [u1 |-> [tier |-> "tier1"], u1b |-> [tier |-> "tier1"], ue |-> [empty |-> TRUE]]
EmptyProfile == [empty |-> TRUE]

\* usernames a request may carry: the keys of users.yaml and one unknown name
Usernames == {"u1", "u1b", "ue", "nx"}
\* request handler threads of the API server
Procs == {"p1", "p2", "t1", "t2"}
\* the handler threads whose requests keep their history also when they run
\* next to each other
Watched == {"t1", "t2"}
\* host directories the workloads mount
RequiredPaths == {"project_center", "shared_rlib"}

Phases == {"Pending", "Running", "Failed"}
\* ages (seconds) a pod is observed at: fresh, at the limit, past the limit
AgeSteps == <<0, MAX_SESSION_DURATION, MAX_SESSION_DURATION + 1>>

VARIABLES
    engine,      \* which deployment runs: "k8s" or "podman"
    pods,        \* k8s: set of pods [name, user, phase, age]
    services,    \* k8s: set of services [name, port] (type NodePort)
    containers,  \* podman: set of containers [name, state, port]
    timers,      \* podman: names with a pending threading.Timer
    hostPaths,   \* host directories that exist
    req,         \* request handlers: Procs -> [pc, op, usr, locals, resp, log]
    reaper,      \* cleanup_old_sessions thread: [pc, items, cur]
    timer,       \* a fired Timer thread running podman_delete_if_stopped
    sess,        \* per user: port of the last launch if it succeeded, not followed
                 \* by a stop or a reaper teardown (0: none)
    mounts       \* build_project_volumes_and_mounts: its argument and its result

vars == <<engine, pods, services, containers, timers, hostPaths, req, reaper,
          timer, sess, mounts>>

(* ------------------------------ helpers -------------------------------- *)

Min(S) == CHOOSE x \in S : \A y \in S : x <= y

PortRange == NODEPORT_START .. NODEPORT_END

\* a backend call either goes through or fails (transport, control plane)
FaultChoices == BOOLEAN

NextAge(a) ==
    IF a = AgeSteps[1] THEN AgeSteps[2] ELSE AgeSteps[3]

get_pod_name(username) == "rstudio-" \o username

get_service_name(username) == "rstudio-svc-" \o username

\* users.get(username)
UsersGet(username) ==
    IF username \in DOMAIN USERS_YAML THEN USERS_YAML[username] ELSE None

\* launch without its `if not user` check
TruthyUnchecked(user) == TRUE

\* Python truthiness of a profile: None and {} are false
Truthy(user) == user # None /\ user # EmptyProfile

\* user.get("tier", "tier1")
TierOf(user) == IF "tier" \in DOMAIN user THEN user.tier ELSE "tier1"

NoResp ==
    [ok |-> FALSE, status |-> 0, kind |-> "none", port |-> NoPort,
     reuse |-> FALSE, running |-> FALSE, sessions |-> {}]

IdleReq ==
    [pc |-> "idle", op |-> "none", usr |-> "none", exists |-> FALSE,
     phase |-> "none", existing_port |-> NoPort, port |-> NoPort,
     retried |-> FALSE, cid |-> "none", audit |-> FALSE,
     presess |-> NoPort, pre |-> None, resp |-> NoResp, log |-> {}]

\* one backend call in a handler's log: what was called, on which object,
\* how it ended ("ok", "404", "409", "422", "error") and whether it changed
\* the backend
Call(c, n, r, e) == [call |-> c, name |-> n, res |-> r, eff |-> e]

\* the history of a request (log, pre, presess, sess) is kept for the
\* requests that are served alone; it is what the request-level claims read
Respond(r, self, resp, entries) ==
    [r EXCEPT ![self].pc = "done", ![self].resp = resp,
              ![self].log = IF r[self].audit THEN @ \cup entries ELSE @]

Goto(r, self, pc, entries) ==
    [r EXCEPT ![self].pc = pc,
              ![self].log = IF r[self].audit THEN @ \cup entries ELSE @]

ErrResp(status, kind) == [NoResp EXCEPT !.status = status, !.kind = kind]

OkLaunch(port, reuse) ==
    [NoResp EXCEPT !.ok = TRUE, !.status = 200, !.kind = "ok",
                   !.port = port, !.reuse = reuse]

(* ------------------------- the Kubernetes API -------------------------- *)

\* v1.read_namespaced_pod: the pod of that name, or 404
ApiReadPod(ps, name) ==
    IF \E p \in ps : p.name = name
    THEN [status |-> 200, pod |-> CHOOSE p \in ps : p.name = name]
    ELSE [status |-> 404, pod |-> None]

\* a create that is not refused when the name is taken
ApiCreatePodAgain(ps, name, user) ==
    [status |-> 201,
     pods |-> ps \cup {[name |-> name, user |-> user,
                        phase |-> "Pending", age |-> AgeSteps[1]]}]

\* v1.create_namespaced_pod: names are unique in a namespace (409)
ApiCreatePod(ps, name, user) ==
    IF \E p \in ps : p.name = name
    THEN [status |-> 409, pods |-> ps]
    ELSE [status |-> 201,
          pods |-> ps \cup {[name |-> name, user |-> user,
                             phase |-> "Pending", age |-> AgeSteps[1]]}]

\* v1.delete_namespaced_pod
ApiDeletePod(ps, name) ==
    IF \E p \in ps : p.name = name
    THEN [status |-> 200, pods |-> {p \in ps : p.name # name}]
    ELSE [status |-> 404, pods |-> ps]

\* v1.read_namespaced_service
ApiReadService(ss, name) ==
    IF \E s \in ss : s.name = name
    THEN [status |-> 200, svc |-> CHOOSE s \in ss : s.name = name]
    ELSE [status |-> 404, svc |-> None]

\* v1.create_namespaced_service: names are unique (409) and a NodePort is
\* given to one service only (422, "provided port is already allocated")
ApiCreateService(ss, name, port) ==
    IF \E s \in ss : s.name = name THEN [status |-> 409, services |-> ss]
    ELSE IF \E s \in ss : s.port = port THEN [status |-> 422, services |-> ss]
    ELSE [status |-> 201, services |-> ss \cup {[name |-> name, port |-> port]}]

\* a delete that takes every service of the namespace with it
ApiDeleteServiceAll(ss, name) ==
    IF \E sv \in ss : sv.name = name
    THEN [status |-> 200, services |-> {}]
    ELSE [status |-> 404, services |-> ss]

\* v1.delete_namespaced_service
ApiDeleteService(ss, name) ==
    IF \E s \in ss : s.name = name
    THEN [status |-> 200, services |-> {s \in ss : s.name # name}]
    ELSE [status |-> 404, services |-> ss]

(* --------------------------- request intake ---------------------------- *)

\* a finished handler sends its response before anything else happens
Settled == \A p \in Procs : req[p].pc # "done"

\* some handler, the reaper or a timer thread is in the middle of its work
Busy ==
    \/ \E p \in Procs : req[p].pc # "idle"
    \/ reaper.pc # "sleep"
    \/ timer.pc # "idle"

\* what exists in the backend: workload names, exposures, pending timers
Shape ==
    [workloads |-> {p.name : p \in pods} \cup {c.name : c \in containers},
     services |-> services,
     timers |-> timers]

Begin(self, op, username, pc, seq) ==
    [req EXCEPT ![self] = [IdleReq EXCEPT !.pc = pc, !.op = op,
                                          !.usr = username,
                                          !.audit = seq \/ self \in Watched,
                                          !.presess =
                                              IF seq /\ username \in Usernames
                                              THEN sess[username] ELSE NoPort,
                                          !.pre = IF seq \/ self \in Watched
                                                  THEN Shape ELSE None]]

Remember(self, username, port) ==
    IF req[self].audit THEN [sess EXCEPT ![username] = port] ELSE sess

\* load_users: the users of users.yaml, or None for the HTTPException(500)
\* it raises when the file is missing or malformed
load_users(readable) == IF readable THEN USERS_YAML ELSE None

\* POST /launch: load_users and the lookup of the user (both deployments)
launch(self, username, seq) ==
    /\ Settled
    /\ req[self].pc = "idle"
    /\ seq => ~Busy
    /\ \E readable \in BOOLEAN :
         LET users == load_users(readable)
             user == IF users = None THEN None ELSE UsersGet(username)
             r == Begin(self, "launch", username, "load_users", seq)
         IN
         req' = IF users = None
                THEN Respond(r, self, ErrResp(500, "ConfigurationError"), {})
                ELSE IF ~Truthy(user)
                THEN Respond(r, self, ErrResp(404, "NotFound"), {})
                ELSE IF engine = "k8s"
                THEN Goto(r, self, "pod_exists", {})
                ELSE Goto(r, self, "validate_required_paths", {})
    /\ sess' = IF seq THEN [sess EXCEPT ![username] = NoPort] ELSE sess
    /\ UNCHANGED <<mounts, engine, pods, services, containers, timers, hostPaths,
                   reaper, timer>>

(* ---------------------- k8s: helpers of the handlers ------------------- *)

\* an exception that leaves the handler: launch calls pod_exists,
\* get_user_nodeport and delete_pod outside its try block, stop_container
\* and check_status catch everything
Raised(self) ==
    IF req[self].op = "launch" THEN ErrResp(500, "unhandled")
    ELSE ErrResp(IF req[self].op = "stop" THEN 500 ELSE 200, "error")

\* after the recreate branch of launch: port = existing_port if existing_port
\* else allocate_nodeport()
EnterTry(r, self, entries) ==
    IF r[self].existing_port # NoPort
    THEN Goto([r EXCEPT ![self].port = r[self].existing_port], self,
              "create_pod", entries)
    ELSE Goto(r, self, "allocate_nodeport", entries)

pod_exists(self) ==
    /\ Settled
    /\ req[self].pc = "pod_exists"
    /\ \E fail \in FaultChoices :
         LET name == get_pod_name(req[self].usr)
             r == ApiReadPod(pods, name)
         IN
         /\ req' =
              IF fail
              THEN Respond(req, self, Raised(self),
                           {Call("read_pod", name, "error", FALSE)})
              ELSE Goto([req EXCEPT
                           ![self].exists = (r.status = 200),
                           ![self].phase =
                               IF r.status = 200 THEN r.pod.phase ELSE "none"],
                        self, "get_user_nodeport",
                        {Call("read_pod", name,
                              IF r.status = 200 THEN r.pod.phase ELSE "404",
                              FALSE)})
    /\ UNCHANGED <<mounts, engine, pods, services, containers, timers, hostPaths,
                   reaper, timer, sess>>

\* get_user_nodeport, and the branch of the caller on what was found
get_user_nodeport(self) ==
    /\ Settled
    /\ req[self].pc = "get_user_nodeport"
    /\ \E fail \in FaultChoices :
         LET name == get_service_name(req[self].usr)
             r == ApiReadService(services, name)
             found == IF r.status = 200 THEN r.svc.port ELSE NoPort
             entry == {Call("read_service", name,
                            IF r.status = 200 THEN "ok" ELSE "404", FALSE)}
             r1 == [req EXCEPT ![self].existing_port = found]
         IN
         /\ IF fail
            THEN /\ req' = Respond(req, self, Raised(self),
                               {Call("read_service", name, "error", FALSE)})
                 /\ sess' = sess
            ELSE IF req[self].op = "status"
            THEN /\ req' = Respond(r1, self,
                               [NoResp EXCEPT
                                  !.ok = TRUE, !.status = 200, !.kind = "ok",
                                  !.port = found,
                                  !.running = (req[self].exists
                                               /\ req[self].phase = "Running")],
                               entry)
                 /\ sess' = sess
            ELSE IF req[self].exists
            THEN IF req[self].phase = "Running" /\ found # NoPort
                 THEN /\ req' = Respond(r1, self, OkLaunch(found, TRUE), entry)
                      /\ sess' = Remember(self, req[self].usr, found)
                 ELSE /\ req' = Goto(r1, self, "delete_pod", entry)
                      /\ sess' = sess
            ELSE /\ req' = EnterTry(r1, self, entry)
                 /\ sess' = sess
    /\ UNCHANGED <<mounts, engine, pods, services, containers, timers, hostPaths,
                   reaper, timer>>

\* delete_pod re-raising every ApiException, a 404 too
DeletePodRaisesOn404(status) == status # 200

\* delete_pod re-raises the ApiException unless its status is 404
DeletePodRaises(status) == status \notin {200, 404}

delete_pod(self) ==
    /\ Settled
    /\ req[self].pc = "delete_pod"
    /\ \E fail \in FaultChoices :
         LET name == get_pod_name(req[self].usr)
             r == ApiDeletePod(pods, name)
             status == IF fail THEN 500 ELSE r.status
             entry == {Call("delete_pod", name,
                            IF fail THEN "error"
                            ELSE IF r.status = 200 THEN "ok" ELSE "404",
                            ~fail /\ r.status = 200)}
         IN
         /\ IF DeletePodRaises(status)
            THEN /\ req' = Respond(req, self, Raised(self), entry)
                 /\ pods' = pods
            ELSE /\ pods' = r.pods
                 /\ req' = IF req[self].op = "stop"
                              \/ req[self].existing_port # NoPort
                           THEN Goto(req, self, "delete_service", entry)
                           ELSE EnterTry(req, self, entry)
    /\ UNCHANGED <<mounts, engine, services, containers, timers, hostPaths, reaper,
                   timer, sess>>

\* delete_service logs every failure but a 404 and raises none
delete_service(self) ==
    /\ Settled
    /\ req[self].pc = "delete_service"
    /\ \E fail \in FaultChoices :
         LET name == get_service_name(req[self].usr)
             r == ApiDeleteService(services, name)
             entry == IF fail
                      THEN {Call("delete_service", name, "error", FALSE)}
                      ELSE {Call("delete_service", name,
                                 IF r.status = 200 THEN "ok" ELSE "404",
                                 r.status = 200)}
         IN
         /\ services' = IF fail THEN services ELSE r.services
         /\ req' = IF req[self].op = "stop"
                   THEN Respond(req, self,
                                [NoResp EXCEPT !.ok = TRUE, !.status = 200,
                                               !.kind = "ok"], entry)
                   ELSE EnterTry(req, self, entry)
    /\ UNCHANGED <<mounts, engine, pods, containers, timers, hostPaths, reaper,
                   timer, sess>>

\* get_used_nodeports: the NodePorts of all services; [] when the list fails
get_used_nodeports(ss, fail) ==
    IF fail THEN {} ELSE {s.port : s \in ss}

\* the loop of allocate_nodeport from `port` on; NoPort stands for the
\* HTTPException(507) it raises when the range is used up
RECURSIVE ScanPorts(_, _)
ScanPorts(port, used_ports) ==
    IF port > NODEPORT_END THEN NoPort
    ELSE IF port \notin used_ports THEN port
    ELSE ScanPorts(port + 1, used_ports)

AllocatePort(used_ports) == ScanPorts(NODEPORT_START, used_ports)

\* allocate_nodeport as launch calls it: the HTTPException(507) is caught by
\* launch's `except Exception` and answered with status_code=500
allocate_nodeport(self) ==
    /\ Settled
    /\ req[self].pc = "allocate_nodeport"
    /\ \E fail \in FaultChoices :
         LET port == AllocatePort(get_used_nodeports(services, fail))
             entry == {Call("list_services", "namespace",
                            IF fail THEN "error" ELSE "ok", FALSE)}
         IN
         /\ req' = IF port = NoPort
                   THEN Respond(req, self, ErrResp(500, "ResourceExhausted"),
                                entry)
                   ELSE Goto([req EXCEPT ![self].port = port], self,
                             "create_pod", entry)
    /\ UNCHANGED <<mounts, engine, pods, services, containers, timers, hostPaths,
                   reaper, timer, sess>>

\* create_pod: any ApiException (409 included) becomes HTTPException(500),
\* which launch answers with ok:false
create_pod(self) ==
    /\ Settled
    /\ req[self].pc = "create_pod"
    /\ \E fail \in FaultChoices :
         LET name == get_pod_name(req[self].usr)
             r == ApiCreatePod(pods, name, req[self].usr)
         IN
         /\ IF fail
            THEN /\ pods' = pods
                 /\ req' = Respond(req, self, ErrResp(500, "BackendError"),
                               {Call("create_pod", name, "error", FALSE)})
            ELSE IF r.status = 409
            THEN /\ pods' = pods
                 /\ req' = Respond(req, self, ErrResp(500, "BackendError"),
                               {Call("create_pod", name, "409", FALSE)})
            ELSE /\ pods' = r.pods
                 /\ req' = Goto(req, self, "create_service",
                               {Call("create_pod", name, "ok", TRUE)})
    /\ UNCHANGED <<mounts, engine, services, containers, timers, hostPaths, reaper,
                   timer, sess>>

\* create_service: 409 means "already exists" and is taken as success
create_service(self) ==
    /\ Settled
    /\ req[self].pc = "create_service"
    /\ \E fail \in FaultChoices :
         LET name == get_service_name(req[self].usr)
             port == req[self].port
             r == ApiCreateService(services, name, port)
         IN
         /\ IF fail \/ r.status = 422
            THEN /\ services' = services
                 /\ sess' = sess
                 /\ req' = Respond(req, self, ErrResp(500, "BackendError"),
                               {Call("create_service", name,
                                     IF fail THEN "error" ELSE "422", FALSE)})
            ELSE /\ services' = r.services
                 /\ sess' = Remember(self, req[self].usr, port)
                 /\ req' = Respond(req, self, OkLaunch(port, FALSE),
                               {Call("create_service", name,
                                     IF r.status = 409 THEN "409" ELSE "ok",
                                     r.status = 201)})
    /\ UNCHANGED <<mounts, engine, pods, containers, timers, hostPaths, reaper,
                   timer>>

\* POST /stop on k8s
stop_container(self, username, seq) ==
    /\ Settled
    /\ engine = "k8s"
    /\ req[self].pc = "idle"
    /\ seq => ~Busy
    /\ req' = Begin(self, "stop", username, "delete_pod", seq)
    /\ sess' = IF seq THEN [sess EXCEPT ![username] = NoPort] ELSE sess
    /\ UNCHANGED <<mounts, engine, pods, services, containers, timers, hostPaths,
                   reaper, timer>>

\* GET /status/{username} on k8s
check_status(self, username, seq) ==
    /\ Settled
    /\ engine = "k8s"
    /\ req[self].pc = "idle"
    /\ seq => ~Busy
    /\ req' = Begin(self, "status", username, "pod_exists", seq)
    /\ UNCHANGED <<mounts, engine, pods, services, containers, timers, hostPaths,
                   reaper, timer, sess>>

\* GET /sessions: one entry per listed pod
list_sessions(self, seq) ==
    /\ Settled
    /\ engine = "k8s"
    /\ req[self].pc = "idle"
    /\ seq => ~Busy
    /\ \E fail \in FaultChoices :
         /\ req' = Respond(
                Begin(self, "sessions", "none", "list_pods", seq),
                self,
                IF fail THEN ErrResp(200, "error")
                ELSE [NoResp EXCEPT
                        !.ok = TRUE, !.status = 200, !.kind = "ok",
                        !.sessions =
                            {[username |-> p.user, pod |-> p.name,
                              status |-> p.phase, age |-> p.age] : p \in pods}],
                {Call("list_pods", "namespace",
                      IF fail THEN "error" ELSE "ok", FALSE)})
    /\ UNCHANGED <<mounts, engine, pods, services, containers, timers, hostPaths,
                   reaper, timer, sess>>

\* the response is sent and the handler is free again
\* how a launch ended, as the requests that ran next to it remember it:
\* "fresh" for a workload created with no collision met, "reuse" for the
\* reuse response, "retry" for a create repeated after a collision
Outcome(p) ==
    IF ~req[p].resp.ok THEN "failed"
    ELSE IF engine = "k8s"
    THEN (IF req[p].resp.reuse THEN "reuse" ELSE "fresh")
    ELSE IF \E e \in req[p].log : e.call = "create" /\ e.res = "in use"
    THEN "retry" ELSE "fresh"

\* the watched launches still in flight when the launch of self returns
Peers(self) ==
    {q \in Watched \ {self} : /\ req[self].op = "launch"
                              /\ req[q].op = "launch"
                              /\ req[q].pc # "idle"}

Return(self) ==
    /\ req[self].pc = "done"
    /\ req' = [q \in Procs |->
                 IF q = self THEN IdleReq
                 ELSE IF q \in Peers(self)
                 THEN [req[q] EXCEPT
                         !.log = @ \cup {Call("peer", req[self].usr,
                                              Outcome(self), FALSE)}]
                 ELSE req[q]]
    /\ UNCHANGED <<mounts, engine, pods, services, containers, timers, hostPaths,
                   reaper, timer, sess>>

(* ------------------- k8s: the session cleanup thread ------------------- *)

IdleReaper ==
    [pc |-> "sleep", items |-> {}, cur |-> None, audit |-> FALSE,
     due |-> {}, failed |-> {}]

\* the history of a cycle (due, failed) is kept for the cycles that run with
\* no request in flight; it is what the claim about the reaper reads
Failing(r, fail, who) ==
    IF r.audit /\ fail THEN r.failed \cup {who} ELSE r.failed

\* get_pod_age_seconds of a listed pod: now - start_time
get_pod_age_seconds(item) == item.age

\* a threshold that lets the sessions at the age cap through
SessionExpiredLate(age) == age > MAX_SESSION_DURATION + WARNING_SECONDS

\* a threshold that takes the sessions of the warning band too
SessionExpiredEarly(age) == age > MAX_SESSION_DURATION - WARNING_SECONDS

\* `if age > MAX_SESSION_DURATION`
SessionExpired(age) == age > MAX_SESSION_DURATION

\* a loop that is left after the first pod it deals with
ReaperHalt(r, rest) ==
    [r EXCEPT !.items = {}, !.cur = None, !.pc = "sleep"]

\* after one listed pod is dealt with: the next one, or time.sleep
ReaperNext(r, rest) ==
    [r EXCEPT !.items = rest, !.cur = None,
              !.pc = IF rest = {} THEN "sleep" ELSE "iter"]

\* the sessions past the limit when a cycle starts, with their ports
\* (history: what the cycle is due to tear down)
Due ==
    {[user |-> w.user,
      port |-> LET ss == {s \in services : s.name = get_service_name(w.user)}
               IN IF ss = {} THEN NoPort ELSE (CHOOSE s \in ss : TRUE).port]
        : w \in {x \in pods : x.age > MAX_SESSION_DURATION}}

\* top of the loop: v1.list_namespaced_pod; a failure is logged and the
\* thread sleeps until the next cycle
cleanup_list(seq) ==
    /\ Settled
    /\ engine = "k8s"
    /\ reaper.pc = "sleep"
    /\ seq => ~Busy
    /\ \E fail \in FaultChoices :
         LET r == [IdleReaper EXCEPT !.audit = seq,
                                     !.due = IF seq THEN Due ELSE {}]
         IN
         /\ reaper' = IF fail
                      THEN [r EXCEPT !.failed = Failing(r, fail, "*")]
                      ELSE ReaperNext(r, pods)
    /\ UNCHANGED <<mounts, engine, pods, services, containers, timers, hostPaths,
                   req, timer, sess>>

\* one pass of `for pod in pods.items`: a pod past the limit is deleted by
\* name; a failed delete (404 included) skips the service
cleanup_old_sessions ==
    /\ Settled
    /\ reaper.pc = "iter"
    /\ \E pod \in reaper.items, fail \in FaultChoices :
         LET age == get_pod_age_seconds(pod)
             r == ApiDeletePod(pods, pod.name)
             rest == reaper.items \ {pod}
         IN
         IF SessionExpired(age)
         THEN IF fail \/ r.status = 404
              THEN /\ pods' = pods
                   /\ sess' = sess
                   /\ reaper' = [ReaperNext(reaper, rest) EXCEPT
                                   !.failed = Failing(reaper, fail, pod.user)]
              ELSE /\ pods' = r.pods
                   /\ sess' = [sess EXCEPT ![pod.user] = NoPort]
                   /\ reaper' = [reaper EXCEPT
                                   !.pc = "delete_service", !.cur = pod]
         ELSE /\ fail = FALSE
              /\ reaper' = ReaperNext(reaper, rest)
              /\ UNCHANGED <<pods, sess>>
    /\ UNCHANGED <<mounts, engine, services, containers, timers, hostPaths, req,
                   timer>>

\* v1.delete_namespaced_service of the deleted pod's user
cleanup_delete_service ==
    /\ Settled
    /\ reaper.pc = "delete_service"
    /\ \E fail \in FaultChoices :
         LET r == ApiDeleteService(services,
                                   "rstudio-svc-" \o reaper.cur.user)
         IN
         /\ services' = IF fail THEN services ELSE r.services
         /\ reaper' = [ReaperNext(reaper, reaper.items \ {reaper.cur}) EXCEPT
                         !.failed = Failing(reaper, fail, reaper.cur.user)]
    /\ UNCHANGED <<mounts, engine, pods, containers, timers, hostPaths, req, timer,
                   sess>>

(* -------------------------- k8s: the cluster --------------------------- *)

\* the kubelet starts a pending pod once its hostPath volumes mount
PodRunning ==
    /\ Settled
    /\ "shared_rlib" \in hostPaths
    /\ \E p \in pods :
         /\ p.phase = "Pending"
         /\ pods' = (pods \ {p}) \cup {[p EXCEPT !.phase = "Running"]}
    /\ UNCHANGED <<mounts, engine, services, containers, timers, hostPaths, req,
                   reaper, timer, sess>>

\* the container of a running pod exits
PodFailed ==
    /\ Settled
    /\ \E p \in pods :
         /\ p.phase = "Running"
         /\ pods' = (pods \ {p}) \cup {[p EXCEPT !.phase = "Failed"]}
    /\ UNCHANGED <<mounts, engine, services, containers, timers, hostPaths, req,
                   reaper, timer, sess>>

Older(p) == [p EXCEPT !.age = NextAge(@)]

\* time passes: every pod, and every pod the reaper holds listed, grows older
Tick ==
    /\ Settled
    /\ \E p \in pods : p.age < AgeSteps[3]
    /\ pods' = {Older(p) : p \in pods}
    /\ reaper' = [reaper EXCEPT
                    !.items = {Older(p) : p \in @},
                    !.cur = IF @ = None THEN None ELSE Older(@)]
    /\ UNCHANGED <<mounts, engine, services, containers, timers, hostPaths, req,
                   timer, sess>>

(* ------------------------- the podman REST API ------------------------- *)

\* GET containers/{name}/json: 404, or the container with its State.Status
PodmanInspect(cs, name) ==
    IF \E c \in cs : c.name = name
    THEN [status |-> 200, state |-> (CHOOSE c \in cs : c.name = name).state]
    ELSE [status |-> 404, state |-> "none"]

\* POST containers/create: a name in use is refused with a 500 whose text
\* says "already in use"; the new container is created, not yet started
PodmanCreate(cs, name, port) ==
    IF \E c \in cs : c.name = name
    THEN [status |-> 500, containers |-> cs]
    ELSE [status |-> 201,
          containers |-> cs \cup {[name |-> name, state |-> "created",
                                   port |-> port]}]

\* POST containers/{cid}/start: 404 when the container is gone, 500 when its
\* host port is held by a running container, else 204 and it runs
PodmanStart(cs, name, present) ==
    IF ~present \/ ~\E c \in cs : c.name = name
    THEN [status |-> 404, containers |-> cs]
    ELSE LET c == CHOOSE x \in cs : x.name = name IN
         IF \E o \in cs : o.name # name /\ o.state = "running"
                          /\ o.port = c.port
         THEN [status |-> 500, containers |-> cs]
         ELSE [status |-> 204,
               containers |-> (cs \ {c}) \cup {[c EXCEPT !.state = "running"]}]

\* POST containers/{name}/stop: a running container exits
PodmanStop(cs, name) ==
    IF \E c \in cs : c.name = name
    THEN LET c == CHOOSE x \in cs : x.name = name IN
         IF c.state = "running"
         THEN [status |-> 204,
               containers |-> (cs \ {c}) \cup {[c EXCEPT !.state = "exited"]}]
         ELSE [status |-> 304, containers |-> cs]
    ELSE [status |-> 404, containers |-> cs]

\* DELETE containers/{name}?force=true: removes it in whatever state it is
PodmanDelete(cs, name) ==
    IF \E c \in cs : c.name = name
    THEN [status |-> 200, containers |-> {c \in cs : c.name # name}]
    ELSE [status |-> 404, containers |-> cs]

\* a handler that holds the id of a container it created loses it when the
\* container of that name is removed
Forget(r, name, removed) ==
    [p \in Procs |->
        IF removed /\ r[p].cid = name THEN [r[p] EXCEPT !.cid = "gone"]
        ELSE r[p]]

(* ----------------------- podman: the handlers -------------------------- *)

\* cname = f"rstudio-{username}"
cname(username) == "rstudio-" \o username

\* TIER_PORTS.get(tier, 8810)
TierPort(tier) ==
    IF tier \in DOMAIN TIER_PORTS THEN TIER_PORTS[tier] ELSE DEFAULT_TIER_PORT

\* ensure_user_home and validate_required_paths: both raise
\* HTTPException(500) before launch enters its try block
validate_required_paths(self) ==
    /\ Settled
    /\ req[self].pc = "validate_required_paths"
    /\ \E home_ok \in BOOLEAN :
         LET missing == {q \in RequiredPaths : q \notin hostPaths}
             port == TierPort(TierOf(UsersGet(req[self].usr)))
         IN
         req' = IF ~home_ok
                THEN Respond(req, self, ErrResp(500, "HomeError"), {})
                ELSE IF missing # {}
                THEN Respond(req, self, ErrResp(500, "MissingHostPath"), {})
                ELSE Goto([req EXCEPT ![self].port = port], self,
                          "podman_create", {})
    /\ UNCHANGED <<mounts, engine, pods, services, containers, timers, hostPaths,
                   reaper, timer, sess>>

\* podman_create_and_start, the create call: the first one, and the second
\* one after the cleanup of a name in use (req.retried)
podman_create(self) ==
    /\ Settled
    /\ req[self].pc = "podman_create"
    /\ \E fail \in FaultChoices :
         LET name == cname(req[self].usr)
             r == PodmanCreate(containers, name, req[self].port)
         IN
         IF fail
         THEN /\ containers' = containers
              /\ req' = Respond(req, self, ErrResp(500, "BackendError"),
                                {Call("create", name, "error", FALSE)})
         ELSE IF r.status = 500
         THEN /\ containers' = containers
              /\ req' = IF req[self].retried
                        THEN Respond(req, self, ErrResp(500, "BackendError"),
                                     {Call("create", name, "in use", FALSE)})
                        ELSE Goto([req EXCEPT ![self].retried = TRUE], self,
                                  "podman_delete_if_exists",
                                  {Call("create", name, "in use", FALSE)})
         ELSE /\ containers' = r.containers
              /\ req' = Goto([req EXCEPT ![self].cid = name], self,
                             "podman_start",
                             {Call("create", name, "ok", TRUE)})
    /\ UNCHANGED <<mounts, engine, pods, services, timers, hostPaths, reaper, timer,
                   sess>>

\* where podman_delete_if_exists returns to
AfterCleanup(r, self, entries) ==
    IF r[self].op = "stop"
    THEN Respond(r, self,
                 [NoResp EXCEPT !.ok = TRUE, !.status = 200, !.kind = "ok"],
                 entries)
    ELSE Goto(r, self, "podman_create", entries)

\* podman_delete_if_exists up to its decision: absent, running (a Timer is
\* started) or anything else (force delete); every exception is swallowed
podman_delete_if_exists(self) ==
    /\ Settled
    /\ req[self].pc = "podman_delete_if_exists"
    /\ \E fail \in FaultChoices :
         LET name == cname(req[self].usr)
             r == PodmanInspect(containers, name)
         IN
         IF fail
         THEN /\ timers' = timers
              /\ req' = AfterCleanup(req, self,
                                     {Call("inspect", name, "error", FALSE)})
         ELSE IF r.status = 404
         THEN /\ timers' = timers
              /\ req' = AfterCleanup(req, self,
                                     {Call("inspect", name, "404", FALSE)})
         ELSE IF r.state = "running"
         THEN /\ timers' = timers \cup {name}
              /\ req' = AfterCleanup(req, self,
                                     {Call("inspect", name, "running", FALSE),
                                      Call("timer", name, "ok", TRUE)})
         ELSE /\ timers' = timers
              /\ req' = Goto(req, self, "podman_force_delete",
                             {Call("inspect", name, r.state, FALSE)})
    /\ UNCHANGED <<mounts, engine, pods, services, containers, hostPaths, reaper,
                   timer, sess>>

\* the DELETE ?force=true of podman_delete_if_exists
podman_force_delete(self) ==
    /\ Settled
    /\ req[self].pc = "podman_force_delete"
    /\ \E fail \in FaultChoices :
         LET name == cname(req[self].usr)
             r == PodmanDelete(containers, name)
         IN
         IF fail
         THEN /\ containers' = containers
              /\ req' = AfterCleanup(req, self,
                                     {Call("delete", name, "error", FALSE)})
         ELSE /\ containers' = r.containers
              /\ req' = AfterCleanup(
                            Forget(req, name, r.status = 200), self,
                            {Call("delete", name,
                                  IF r.status = 200 THEN "ok" ELSE "404",
                                  r.status = 200)})
    /\ UNCHANGED <<mounts, engine, pods, services, timers, hostPaths, reaper, timer,
                   sess>>

\* the start call of podman_create_and_start and the response of launch,
\* which always says reuse: True
podman_start(self) ==
    /\ Settled
    /\ req[self].pc = "podman_start"
    /\ \E fail \in FaultChoices :
         LET name == cname(req[self].usr)
             r == PodmanStart(containers, name, req[self].cid = name)
         IN
         IF fail \/ r.status # 204
         THEN /\ containers' = containers
              /\ sess' = sess
              /\ req' = Respond(req, self, ErrResp(500, "BackendError"),
                                {Call("start", name,
                                      IF fail THEN "error"
                                      ELSE IF r.status = 404 THEN "404"
                                      ELSE "port in use", FALSE)})
         ELSE /\ containers' = r.containers
              /\ sess' = Remember(self, req[self].usr, req[self].port)
              /\ req' = Respond(req, self, OkLaunch(req[self].port, TRUE),
                                {Call("start", name, "ok", TRUE)})
    /\ UNCHANGED <<mounts, engine, pods, services, timers, hostPaths, reaper, timer>>

\* POST /stop on podman: the stop call, whose status is never looked at
podman_stop_container(self, username, seq) ==
    /\ Settled
    /\ engine = "podman"
    /\ req[self].pc = "idle"
    /\ seq => ~Busy
    /\ \E fail \in FaultChoices :
         LET name == cname(username)
             r == PodmanStop(containers, name)
             r0 == Begin(self, "stop", username, "podman_stop", seq)
         IN
         IF fail
         THEN /\ containers' = containers
              /\ req' = Respond(r0, self, ErrResp(500, "error"),
                                {Call("stop", name, "error", FALSE)})
         ELSE /\ containers' = r.containers
              /\ req' = Goto(r0, self, "podman_delete_if_exists",
                             {Call("stop", name,
                                   IF r.status = 204 THEN "ok"
                                   ELSE IF r.status = 304 THEN "304"
                                   ELSE "404", r.status = 204)})
    /\ sess' = IF seq THEN [sess EXCEPT ![username] = NoPort] ELSE sess
    /\ UNCHANGED <<mounts, engine, pods, services, timers, hostPaths, reaper, timer>>

\* GET /status/{username} on podman: the list of running containers whose
\* name matches
\* usernames of the directory one of which is the beginning of the other
Prefixes == {<<"u1", "u1b">>}

\* the name filter of GET containers/json is a regular expression searched
\* in the container's name: "rstudio-u1" is found in "rstudio-u1b" too
NameFilter(pattern, name) ==
    \/ name = pattern
    \/ \E pq \in Prefixes : pattern = cname(pq[1]) /\ name = cname(pq[2])

podman_check_status(self, username, seq) ==
    /\ Settled
    /\ engine = "podman"
    /\ req[self].pc = "idle"
    /\ seq => ~Busy
    /\ \E fail \in FaultChoices :
         LET name == cname(username)
             data == {c \in containers : /\ NameFilter(name, c.name)
                                         /\ c.state = "running"}
             r0 == Begin(self, "status", username, "podman_ps", seq)
         IN
         req' = IF fail
                THEN Respond(r0, self, ErrResp(200, "error"),
                             {Call("ps", name, "error", FALSE)})
                ELSE Respond(r0, self,
                             [NoResp EXCEPT !.ok = TRUE, !.status = 200,
                                            !.kind = "ok",
                                            !.running = (data # {})],
                             {Call("ps", name, "ok", FALSE)})
    /\ UNCHANGED <<mounts, engine, pods, services, containers, timers, hostPaths,
                   reaper, timer, sess>>

(* ---------------- podman: deferred deletion and the host --------------- *)

\* a Timer started by podman_delete_if_exists goes off and runs
\* podman_delete_if_stopped up to its decision
podman_delete_if_stopped(seq) ==
    /\ Settled
    /\ timer.pc = "idle"
    /\ seq => ~Busy
    /\ \E name \in timers, fail \in FaultChoices :
         LET r == PodmanInspect(containers, name) IN
         /\ timers' = timers \ {name}
         /\ timer' = IF ~fail /\ r.status = 200 /\ r.state # "running"
                     THEN [pc |-> "delete", name |-> name]
                     ELSE timer
    /\ UNCHANGED <<mounts, engine, pods, services, containers, hostPaths, req,
                   reaper, sess>>

\* the DELETE ?force=true of podman_delete_if_stopped
podman_delayed_delete ==
    /\ Settled
    /\ timer.pc = "delete"
    /\ \E fail \in FaultChoices :
         LET r == PodmanDelete(containers, timer.name) IN
         /\ containers' = IF fail THEN containers ELSE r.containers
         /\ req' = Forget(req, timer.name, ~fail /\ r.status = 200)
    /\ timer' = [pc |-> "idle", name |-> "none"]
    /\ UNCHANGED <<mounts, engine, pods, services, timers, hostPaths, reaper, sess>>

\* the process of a running container exits
ContainerExit ==
    /\ Settled
    /\ \E c \in containers :
         /\ c.state = "running"
         /\ containers' = (containers \ {c}) \cup {[c EXCEPT !.state = "exited"]}
    /\ UNCHANGED <<mounts, engine, pods, services, timers, hostPaths, req, reaper,
                   timer, sess>>

\* podman removes an exited container that was created with "remove": True
AutoRemove ==
    /\ Settled
    /\ \E c \in containers :
         /\ c.state = "exited"
         /\ containers' = containers \ {c}
         /\ req' = Forget(req, c.name, TRUE)
    /\ UNCHANGED <<mounts, engine, pods, services, timers, hostPaths, reaper, timer,
                   sess>>

(* --------------------------- specification ----------------------------- *)

(* ------------------- k8s: project volumes and mounts ------------------- *)

\* strings are sequences of one-character strings

\* str.lower() on the characters that occur
Lower(c) == IF c = "A" THEN "a" ELSE IF c = "P" THEN "p" ELSE c

\* base.lower().replace(" ", "-").replace(".", "")
RECURSIVE BaseSafe(_)
BaseSafe(base) ==
    IF base = <<>> THEN <<>>
    ELSE LET c == Lower(Head(base)) IN
         (IF c = " " THEN <<"-">> ELSE IF c = "." THEN <<>> ELSE <<c>>)
         \o BaseSafe(Tail(base))

\* folder.replace(' ', '-').replace('.', '-').lower()
RECURSIVE FolderSafe(_)
FolderSafe(folder) ==
    IF folder = <<>> THEN <<>>
    ELSE LET c == Head(folder) IN
         (IF c = " " \/ c = "." THEN <<"-">> ELSE <<Lower(c)>>)
         \o FolderSafe(Tail(folder))

\* the index of a grant as the f-string prints it
Digits == <<"0", "1", "2", "3">>

\* f"proj-{base_safe}-{idx}-{folder...}"
VolumeName(base, idx, folder) ==
    <<"p", "r", "o", "j", "-">> \o BaseSafe(base) \o <<"-">>
        \o <<Digits[idx + 1]>> \o <<"-">> \o FolderSafe(folder)

\* `for folder in folders`: one volume and one mount per folder
RECURSIVE FolderVolumes(_, _, _)
FolderVolumes(base, idx, folders) ==
    IF folders = <<>> THEN <<>>
    ELSE <<[name |-> VolumeName(base, idx, Head(folders)),
            idx |-> idx, base |-> base, folder |-> Head(folders)]>>
         \o FolderVolumes(base, idx, Tail(folders))

\* `for idx, project in enumerate(projects)` from index idx on: a grant with
\* an empty base or an empty folder list is passed over
RECURSIVE VolumesFrom(_, _)
VolumesFrom(projects, idx) ==
    IF projects = <<>> THEN <<>>
    ELSE LET project == Head(projects) IN
         (IF project.base = <<>> \/ project.folders = <<>>
          THEN <<>>
          ELSE FolderVolumes(project.base, idx, project.folders))
         \o VolumesFrom(Tail(projects), idx + 1)

\* the call under way returns its list of volumes (the mounts carry the
\* same names)
build_project_volumes_and_mounts ==
    /\ mounts.pc = "call"
    /\ mounts' = [mounts EXCEPT !.pc = "return",
                                !.volumes = VolumesFrom(mounts.projects, 0)]
    /\ UNCHANGED <<engine, pods, services, containers, timers, hostPaths,
                   req, reaper, timer, sess>>

IdleTimer == [pc |-> "idle", name |-> "none"]

\* no call of build_project_volumes_and_mounts under way
NoMounts == [pc |-> "none", projects |-> <<>>, volumes |-> <<>>]

Init ==
    /\ engine \in {"k8s", "podman"}
    /\ pods = {}
    /\ services \in IF engine = "k8s"
                    THEN {{}, {[name |-> "other-svc", port |-> NODEPORT_START]}}
                    ELSE {{}}
    /\ containers = {}
    /\ timers = {}
    /\ hostPaths \in {RequiredPaths, {"project_center"}, {"shared_rlib"}}
    /\ req = [p \in Procs |-> IdleReq]
    /\ reaper = IdleReaper
    /\ timer = IdleTimer
    /\ sess = [u \in Usernames |-> NoPort]
    /\ mounts = NoMounts

\* the steps of a handler thread that is serving a request
ServeK8s(self) ==
    \/ pod_exists(self)
    \/ get_user_nodeport(self)
    \/ delete_pod(self)
    \/ delete_service(self)
    \/ allocate_nodeport(self)
    \/ create_pod(self)
    \/ create_service(self)

ServePodman(self) ==
    \/ validate_required_paths(self)
    \/ podman_create(self)
    \/ podman_delete_if_exists(self)
    \/ podman_force_delete(self)
    \/ podman_start(self)

\* requests served one at a time, the cluster moving under them
Next ==
    \/ \E u \in Usernames : launch("p1", u, TRUE)
    \/ \E u \in Usernames : stop_container("p1", u, TRUE)
    \/ \E u \in Usernames : check_status("p1", u, TRUE)
    \/ list_sessions("p1", TRUE)
    \/ \E u \in Usernames : podman_stop_container("p1", u, TRUE)
    \/ \E u \in Usernames : podman_check_status("p1", u, TRUE)
    \/ ServeK8s("p1")
    \/ ServePodman("p1")
    \/ Return("p1")
    \/ PodRunning
    \/ PodFailed
    \/ podman_delete_if_stopped(TRUE)
    \/ podman_delayed_delete
    \/ ContainerExit
    \/ AutoRemove

Spec == Init /\ [][Next]_vars

\* the users whose requests run concurrently
ConcUsers == {"u1"}

\* the handler threads that serve them
ConcProcs == {"p1", "p2"}

InitConc ==
    /\ Init
    /\ engine = "k8s"
    /\ services = {}
    /\ hostPaths = RequiredPaths

\* the Kubernetes deployment as it runs: handler threads interleaving step by
\* step with each other, with the reaper thread and with the cluster
NextConc ==
    \/ \E self \in ConcProcs, u \in ConcUsers : launch(self, u, FALSE)
    \/ \E self \in ConcProcs, u \in ConcUsers : stop_container(self, u, FALSE)
    \/ \E self \in ConcProcs : list_sessions(self, FALSE)
    \/ \E self \in ConcProcs : ServeK8s(self)
    \/ \E self \in ConcProcs : Return(self)
    \/ cleanup_list(FALSE)
    \/ cleanup_old_sessions
    \/ cleanup_delete_service
    \/ Tick
    \/ PodRunning
    \/ PodFailed

SpecConc == InitConc /\ [][NextConc]_vars

\* the users whose sessions the reaper meets
ReaperUsers == {"u1", "u1b"}

\* what launches and stops leave in the cluster for these users: per user no
\* pod or one pod in some phase and of some age, and no service or a service
\* on a port of its own
PodChoices == {<<ph, i>> : ph \in Phases, i \in DOMAIN AgeSteps} \cup {<<"none", 0>>}

PodsOf(f) ==
    {[name |-> get_pod_name(u), user |-> u, phase |-> f[u][1],
      age |-> AgeSteps[f[u][2]]] : u \in {v \in ReaperUsers : f[v][1] # "none"}}

ServicesOf(g) ==
    {[name |-> get_service_name(u), port |-> g[u]]
        : u \in {v \in ReaperUsers : g[v] # NoPort}}

InitReaper ==
    /\ engine = "k8s"
    /\ pods \in {PodsOf(f) : f \in [ReaperUsers -> PodChoices]}
    /\ services \in {ServicesOf(g) :
                       g \in {h \in [ReaperUsers -> PortRange \cup {NoPort}] :
                                \A u, v \in ReaperUsers :
                                    (u # v /\ h[u] # NoPort) => h[u] # h[v]}}
    /\ containers = {}
    /\ timers = {}
    /\ hostPaths = RequiredPaths
    /\ req = [p \in Procs |-> IdleReq]
    /\ reaper = IdleReaper
    /\ timer = IdleTimer
    /\ sess = [u \in Usernames |-> NoPort]
    /\ mounts = NoMounts

\* the reaper thread at work on the cluster, no request in flight
NextReaper ==
    \/ cleanup_list(TRUE)
    \/ cleanup_old_sessions
    \/ cleanup_delete_service
    \/ Tick
    \/ PodRunning
    \/ PodFailed

\* the users who launch at the same moment
RaceUsers == {"u1", "u1b"}

InitRace ==
    /\ Init
    /\ services = {}
    /\ hostPaths = RequiredPaths

\* no workload and no exposure exists and no launch has succeeded yet
Absent ==
    /\ pods = {} /\ services = {} /\ containers = {}
    /\ \A u \in Usernames : sess[u] = NoPort

\* launch requests that arrive while nothing exists yet, served by two handler
\* threads at once, the cluster and the host moving under them
NextRace ==
    \/ \E self \in Watched, u \in RaceUsers : Absent /\ launch(self, u, FALSE)
    \/ \E self \in Watched : ServeK8s(self)
    \/ \E self \in Watched : ServePodman(self)
    \/ \E self \in Watched : Return(self)
    \/ PodRunning
    \/ PodFailed
    \/ podman_delete_if_stopped(FALSE)
    \/ podman_delayed_delete
    \/ ContainerExit
    \/ AutoRemove

SpecRace == InitRace /\ [][NextRace]_vars

\* the reaper thread is scheduled: time.sleep returns, the loop goes on
SpecReaper ==
    /\ InitReaper
    /\ [][NextReaper]_vars
    /\ WF_vars(cleanup_list(TRUE))
    /\ WF_vars(cleanup_old_sessions)
    /\ WF_vars(cleanup_delete_service)

\* stop requests served while the reaper thread goes through its cycle, on
\* the cluster states launches and stops leave behind
NextTeardown ==
    \/ cleanup_list(TRUE)
    \/ cleanup_old_sessions
    \/ cleanup_delete_service
    \/ \E u \in ReaperUsers : stop_container("t1", u, FALSE)
    \/ delete_pod("t1")
    \/ delete_service("t1")
    \/ Return("t1")
    \/ Tick

SpecTeardown == InitReaper /\ [][NextTeardown]_vars

\* the sequences over S of length at most n
SeqsUpTo(S, n) == UNION {[1..k -> S] : k \in 0..n}

\* folder and base names that meet the sanitizer: upper case, space, dot
FolderNames ==
    {<<"a">>, <<"A">>, <<"a", " ", "b">>, <<"a", ".", "b">>, <<"a", "-", "b">>}
BaseNames == {<<>>, <<"p">>, <<"P", ".">>}

\* the project grants of a user profile
Grants ==
    {[base |-> b, folders |-> f] :
        b \in BaseNames, f \in SeqsUpTo(FolderNames, MaxFolders)}

InitMounts ==
    /\ Init
    /\ engine = "k8s"
    /\ services = {}
    /\ hostPaths = RequiredPaths

\* create_pod calling build_project_volumes_and_mounts with the projects of
\* a profile
call_build(projects) ==
    /\ mounts.pc = "none"
    /\ mounts' = [mounts EXCEPT !.pc = "call", !.projects = projects]
    /\ UNCHANGED <<engine, pods, services, containers, timers, hostPaths,
                   req, reaper, timer, sess>>

NextMounts ==
    \/ \E projects \in SeqsUpTo(Grants, MaxGrants) : call_build(projects)
    \/ build_project_volumes_and_mounts

SpecMounts == InitMounts /\ [][NextMounts]_vars

(* ------------------------------ claims --------------------------------- *)

Done(p) == req[p].pc = "done"

\* no backend call of the request failed
NoFault(p) == \A e \in req[p].log : e.res # "error"

WorkloadPresent(u) ==
    \/ \E q \in pods : q.name = get_pod_name(u)
    \/ \E c \in containers : c.name = cname(u)

ExposurePresent(u) == \E s \in services : s.name = get_service_name(u)

\* nothing was added to or removed from the backend since the request came
\* in (podman itself may have removed an exited container meanwhile)
Untouched(p) ==
    /\ Shape.services = req[p].pre.services
    /\ Shape.timers = req[p].pre.timers
    /\ Shape.workloads \subseteq req[p].pre.workloads
    /\ engine = "k8s" => Shape.workloads = req[p].pre.workloads

\* C9: launch of a username that is not a key of the (readable) user
\* directory answers 404 NotFound, has issued no backend call and has left
\* the backend as it was
UnknownUserNotFound ==
    \A p \in Procs :
        (Done(p) /\ req[p].op = "launch"
            /\ req[p].usr \notin DOMAIN USERS_YAML
            /\ req[p].resp.kind # "ConfigurationError")
        => /\ req[p].resp.status = 404
           /\ req[p].resp.kind = "NotFound"
           /\ ~req[p].resp.ok
           /\ req[p].log = {}
           /\ Shape = req[p].pre

UnknownUserWitness ==
    \E p \in Procs :
        /\ Done(p) /\ req[p].op = "launch" /\ req[p].usr = "nx"
        /\ req[p].resp.status = 404
        /\ Shape.workloads # {}

\* C10: a stop whose backend calls all went through answers ok and leaves
\* the user without workload and without exposure, whether or not there was
\* a session; when there was none the backend is left as it was (so a
\* second stop changes nothing after the first)
StopIdempotent ==
    \A p \in Procs :
        (Done(p) /\ req[p].op = "stop" /\ NoFault(p))
        => LET u == req[p].usr IN
           /\ req[p].resp.ok
           /\ ~WorkloadPresent(u)
           /\ ~ExposurePresent(u)
           /\ (/\ get_pod_name(u) \notin req[p].pre.workloads
               /\ ~\E s \in req[p].pre.services : s.name = get_service_name(u))
              => Untouched(p)

StopIdempotentWitness ==
    \E p \in Procs :
        /\ Done(p) /\ req[p].op = "stop" /\ NoFault(p)
        /\ req[p].resp.ok
        /\ get_pod_name(req[p].usr) \notin req[p].pre.workloads
        /\ ~\E s \in req[p].pre.services :
               s.name = get_service_name(req[p].usr)
        /\ req[p].usr \in DOMAIN USERS_YAML
        /\ Shape.workloads # {}

\* the request got past the user lookup and the local preparations
Admitted(p) ==
    req[p].resp.kind \notin {"ConfigurationError", "NotFound", "HomeError"}

Created(p) ==
    \E e \in req[p].log :
        e.call \in {"create_pod", "create_service", "create"} /\ e.res # "error"

\* C1: a launch of u that directly follows a successful launch of u (no
\* stop, no reaper teardown in between) and whose backend calls all went
\* through returns ok with the port of the first launch and reuse = true
LaunchIdempotent ==
    \A p \in Procs :
        (Done(p) /\ req[p].op = "launch" /\ req[p].presess # NoPort
            /\ NoFault(p) /\ Admitted(p)
            /\ req[p].resp.kind # "MissingHostPath")
        => /\ req[p].resp.ok
           /\ req[p].resp.port = req[p].presess
           /\ req[p].resp.reuse

\* external ports configured for the workload that exists under u's name
WorkloadPorts(u) ==
    {s.port : s \in {t \in services : /\ t.name = get_service_name(u)
                                      /\ \E w \in pods : w.name = get_pod_name(u)}}
    \cup {c.port : c \in {d \in containers : d.name = cname(u)}}

AllocateLowestFree ==
    \A p \in Procs :
        (req[p].pc = "create_pod" /\ req[p].existing_port = NoPort)
        => LET bound == {s.port : s \in services} IN
           /\ req[p].port \in PortRange
           /\ req[p].port \notin bound
           /\ \A q \in PortRange : q < req[p].port => q \in bound

\* C5: a launch for a user without session that finds every port of the
\* range bound fails with ResourceExhausted and status 507 and creates
\* neither pod nor service
ExhaustionReported ==
    \A p \in Procs :
        (Done(p) /\ req[p].op = "launch" /\ engine = "k8s"
            /\ NoFault(p) /\ Admitted(p)
            /\ get_pod_name(req[p].usr) \notin req[p].pre.workloads
            /\ get_service_name(req[p].usr)
                   \notin {s.name : s \in req[p].pre.services}
            /\ PortRange \subseteq {s.port : s \in req[p].pre.services})
        => /\ ~req[p].resp.ok
           /\ req[p].resp.kind = "ResourceExhausted"
           /\ req[p].resp.status = 507
           /\ ~Created(p)
           /\ Untouched(p)

FoundStopped(p) ==
    \/ engine = "k8s" /\ req[p].exists /\ req[p].phase = "Failed"
    \/ \E e \in req[p].log :
          e.call = "inspect" /\ e.res \in {"created", "exited"}

Expired(u) ==
    \E w \in pods : /\ w.name = get_pod_name(u)
                    /\ w.age > MAX_SESSION_DURATION

Gone(u) == ~WorkloadPresent(u) /\ ~ExposurePresent(u)

\* a backend call of the reaper's current cycle failed for u's session
ReapFailed(u) == u \in reaper.failed \/ "*" \in reaper.failed

\* when a reaper cycle ends, every session that was past the limit when the
\* cycle started has neither pod nor service and its port is bound to no
\* service, unless a backend call of the cycle failed for it
ReapedByCycleEnd ==
    [][(reaper' # reaper /\ reaper'.pc = "sleep")
       => \A d \in reaper'.due :
              \/ ReapFailed(d.user)'
              \/ /\ Gone(d.user)'
                 /\ d.port \notin get_used_nodeports(services', FALSE)]_vars

\* C6: a session whose age exceeds MAX_SESSION_DURATION is torn down by the
\* reaper, pod and service both absent and the port free again, by the end
\* of the cycle that starts next (or a backend call of the reaper fails)
ReapCorrect ==
    /\ ReapedByCycleEnd
    /\ \A u \in ReaperUsers : Expired(u) ~> (Gone(u) \/ ReapFailed(u))

\* the reaper has ended a cycle without failure in which it tore down a
\* session that had a pod and a service
ReapCorrectWitness ==
    /\ reaper.pc = "sleep"
    /\ reaper.failed = {}
    /\ \E d \in reaper.due : d.port # NoPort /\ Gone(d.user)
    /\ Cardinality(reaper.due) = 2

\* C11: a status request whose backend calls are answered changes nothing
\* in the backend (workloads, services, timers) and reports running = true
\* exactly when the user's workload exists and is running: the pod read by
\* name has phase Running, the container of the user's name is running
StatusPureRead ==
    \A p \in Procs :
        (Done(p) /\ req[p].op = "status" /\ NoFault(p))
        => /\ Untouched(p)
           /\ \A e \in req[p].log : ~e.eff
           /\ engine = "k8s" =>
                (req[p].resp.running
                 <=> \E e \in req[p].log :
                        e.call = "read_pod" /\ e.res = "Running")
           /\ engine = "podman" =>
                (req[p].resp.running
                 <=> \E c \in containers :
                        c.name = cname(req[p].usr) /\ c.state = "running")

\* a launch of the same user returned while this one was in flight
PeerOf(p, outcomes) ==
    \E e \in req[p].log :
        e.call = "peer" /\ e.name = req[p].usr /\ e.res \in outcomes

\* C12: of two launches of one user served at the same time, when one has
\* completed a fresh create the other, its own backend calls answered, does
\* not complete a fresh create as well: it succeeds by the reuse path or by
\* a create repeated after the name collision; and the user never has two
\* workloads
SameUserRace ==
    /\ \A p \in Watched :
          (/\ Done(p) /\ req[p].op = "launch" /\ NoFault(p) /\ Admitted(p)
           /\ PeerOf(p, {"fresh"}))
          => Outcome(p) \in {"reuse", "retry"}
    /\ \A u \in Usernames :
          /\ Cardinality({q \in pods : q.user = u}) <= 1
          /\ Cardinality({c \in containers : c.name = cname(u)}) <= 1

\* the launches that ran next to the launch of p were all of other users,
\* and there was one
OtherUsersOnly(p) ==
    LET others == {e.name : e \in {f \in req[p].log : f.call = "peer"}}
                  \cup {req[q].usr : q \in Peers(p)}
    IN  others # {} /\ req[p].usr \notin others

\* C13: launches of two different users served at the same time on the
\* Kubernetes deployment, neither user having a pod or a service and two
\* ports being free: the two never hold the same port from
\* allocate_nodeport, and a launch whose backend calls are answered
\* succeeds and leaves pod and service of its user
DistinctUserRace ==
    engine = "k8s" =>
      /\ \A p, q \in Watched :
            (/\ req[p].op = "launch" /\ req[q].op = "launch"
             /\ req[p].usr # req[q].usr
             /\ req[p].port # NoPort)
            => req[p].port # req[q].port
      /\ \A p \in Watched :
            (/\ Done(p) /\ req[p].op = "launch" /\ NoFault(p) /\ Admitted(p)
             /\ req[p].pre.workloads = {} /\ req[p].pre.services = {}
             /\ OtherUsersOnly(p))
            => /\ req[p].resp.ok
               /\ \E s \in services : s.name = get_service_name(req[p].usr)

\* the launch of p met the name of a container that was running
FoundRunning(p) ==
    Call("inspect", cname(req[p].usr), "running", FALSE) \in req[p].log

\* C14: a launch on the Podman deployment whose create met the name of a
\* running container, its backend calls answered, only schedules the
\* deletion (a timer, no delete call), and returns success with the port
\* of the session that exists
RunningCollisionDeferred ==
    \A p \in Procs :
        (/\ Done(p) /\ req[p].op = "launch" /\ engine = "podman"
         /\ NoFault(p) /\ FoundRunning(p))
        => /\ Call("timer", cname(req[p].usr), "ok", TRUE) \in req[p].log
           /\ \A e \in req[p].log : e.call # "delete"
           /\ req[p].resp.ok
           /\ req[p].resp.port = TierPort(TierOf(UsersGet(req[p].usr)))

\* C15: a launch, stop or status request in which a backend call failed
\* ends with a response built by its handler: the failure does not leave
\* the handler as a raised exception
StructuredErrors ==
    \A p \in Procs :
        (/\ Done(p) /\ req[p].op \in {"launch", "stop", "status"}
         /\ ~NoFault(p))
        => req[p].resp.kind # "unhandled"

\* C16: a launch answers NotFound (404) exactly when users.yaml was loaded
\* and the username is not one of its keys, and answers with a 5xx
\* ConfigurationError when users.yaml could not be loaded; a username that
\* is a key, also one with an empty profile, is never answered NotFound
NotFoundOnlyForAbsentKey ==
    \A p \in Procs :
        (Done(p) /\ req[p].op = "launch")
        => /\ req[p].resp.kind = "ConfigurationError"
                => req[p].resp.status >= 500
           /\ req[p].resp.kind = "NotFound" => req[p].resp.status = 404
           /\ req[p].resp.kind # "ConfigurationError"
                => (req[p].resp.kind = "NotFound"
                    <=> req[p].usr \notin DOMAIN USERS_YAML)

\* the launch of p saw the user's workload running and exposed: the pod read
\* with phase Running and the service read with its port, or the container
\* of the user's name inspected running
ObservedRunning(p) ==
    IF engine = "k8s"
    THEN /\ Call("read_pod", get_pod_name(req[p].usr), "Running", FALSE)
                \in req[p].log
         /\ Call("read_service", get_service_name(req[p].usr), "ok", FALSE)
                \in req[p].log
    ELSE FoundRunning(p)

\* the calls that create, delete, allocate or expose
ChangingCalls ==
    {"create_pod", "create_service", "delete_pod", "delete_service",
     "list_services", "create", "start", "delete", "timer"}

\* C17: a launch that saw the user's workload running and exposed, its
\* backend calls answered, issues no create, delete, allocate or expose
\* call, leaves workloads, services and timers as they were, and succeeds
ReuseNoEffect ==
    \A p \in Procs :
        (/\ Done(p) /\ req[p].op = "launch" /\ NoFault(p)
         /\ ObservedRunning(p))
        => /\ \A e \in req[p].log : ~e.eff /\ e.call \notin ChangingCalls
           /\ Untouched(p)
           /\ req[p].resp.ok

\* C18: a launch on the Kubernetes deployment that read the user's pod with
\* phase Running issues no delete of that pod, whether or not it found the
\* user's service
RunningNeverDeleted ==
    \A p \in Procs :
        (/\ req[p].op = "launch" /\ engine = "k8s"
         /\ Call("read_pod", get_pod_name(req[p].usr), "Running", FALSE)
                \in req[p].log)
        => \A e \in req[p].log : e.call # "delete_pod"

\* C19: a launch whose listing of the services failed holds no port from
\* allocate_nodeport, creates nothing, and ends with an error response
ListFailureSurfaced ==
    \A p \in Procs :
        (/\ req[p].op = "launch" /\ engine = "k8s"
         /\ Call("list_services", "namespace", "error", FALSE) \in req[p].log)
        => /\ req[p].port = NoPort
           /\ ~Created(p)
           /\ Done(p) => ~req[p].resp.ok

\* C20: a stop request answers ok: true only if none of its backend calls
\* failed: a stop or a deletion that failed is answered ok: false
StopReportsFailure ==
    \A p \in Procs :
        (Done(p) /\ req[p].op = "stop" /\ req[p].resp.ok) => NoFault(p)

\* when a cycle that listed the pods ends, every session that was past the
\* limit at the listing and for which no call of the cycle failed is gone,
\* whatever failed for the other sessions
OthersReaped ==
    [][(reaper' # reaper /\ reaper'.pc = "sleep" /\ "*" \notin reaper'.failed)
       => \A d \in reaper'.due :
              d.user \notin reaper'.failed => Gone(d.user)']_vars

\* C21: in a reaper cycle a failed teardown of one expired session does not
\* keep the other expired sessions of the cycle from being torn down; and
\* no failure, of a teardown or of the listing, stops the loop: every cycle
\* reaches its sleep, and from the sleep the next listing can start
ReaperIsolation ==
    /\ OthersReaped
    /\ [](reaper.pc = "sleep" => ENABLED cleanup_list(TRUE))
    /\ (reaper.pc # "sleep") ~> (reaper.pc = "sleep")

\* a cycle has ended in which the teardown of one of two expired sessions
\* failed and the other session was torn down, pod and service
ReaperIsolationWitness ==
    /\ reaper.pc = "sleep"
    /\ Cardinality(reaper.due) = 2
    /\ Cardinality(reaper.failed) = 1
    /\ \E d \in reaper.due :
          d.user \notin reaper.failed /\ d.port # NoPort /\ Gone(d.user)
    /\ \E d \in reaper.due : d.user \in reaper.failed /\ ~Gone(d.user)

\* the last WARNING_SECONDS of a session's lifetime
InWarningBand(age) ==
    age > MAX_SESSION_DURATION - WARNING_SECONDS /\ age <= MAX_SESSION_DURATION

\* C22: no step of the reaper touches a session whose age is at most
\* MAX_SESSION_DURATION, the warning band included: its pod stays, in the
\* same phase and no younger than it was, and its service stays on its port
YoungUntouched ==
    [][reaper' # reaper
       => \A w \in pods :
            w.age <= MAX_SESSION_DURATION
            => /\ \E x \in pods' : /\ x.name = w.name /\ x.phase = w.phase
                                    /\ x.age >= w.age
               /\ \A sv \in services :
                     sv.name = get_service_name(w.user)
                     => sv \in services']_vars

\* a cycle has ended that tore down an expired session and passed by a
\* session of the warning band, which still has its pod and its service
YoungUntouchedWitness ==
    /\ reaper.pc = "sleep"
    /\ reaper.audit
    /\ \E d \in reaper.due : d.port # NoPort /\ Gone(d.user)
    /\ \E w \in pods : /\ InWarningBand(w.age)
                        /\ ExposurePresent(w.user)

\* the launch of p created a workload: a pod or a container
CreatedWorkload(p) ==
    \E e \in req[p].log :
        e.call \in {"create_pod", "create"} /\ e.res = "ok" /\ e.eff

\* C23: a successful launch that created a workload answers reuse = false,
\* and a launch answers reuse = true only when it created nothing
ReuseFlagTellsCreation ==
    \A p \in Procs :
        (Done(p) /\ req[p].op = "launch" /\ req[p].resp.ok)
        => /\ CreatedWorkload(p) => ~req[p].resp.reuse
           /\ req[p].resp.reuse => ~Created(p)

\* the users whose sessions the reaper's cycle was due to tear down
DueUsers == {d.user : d \in reaper.due}

\* v's session is not one the reaper may tear down: its pod is there and
\* within its lifetime
NotDue(p, v) ==
    \E w \in pods : /\ w.name = get_pod_name(v)
                    /\ w.age <= MAX_SESSION_DURATION

\* C24: a stop of u whose calls are answered, running next to the reaper's
\* teardown of u's session in any order of their steps, answers ok and
\* leaves u with neither pod nor service; and the pod and the service of
\* every other user whose session is not past the limit are as they were
\* when the stop began
DoubleTeardownHarmless ==
    \A p \in Watched :
        (Done(p) /\ req[p].op = "stop" /\ engine = "k8s" /\ NoFault(p))
        => /\ req[p].resp.ok
           /\ Gone(req[p].usr)
           /\ \A v \in ReaperUsers \ {req[p].usr} :
                 NotDue(p, v)
                 => /\ (get_pod_name(v) \in Shape.workloads
                         <=> get_pod_name(v) \in req[p].pre.workloads)
                    /\ \A sv \in services \cup req[p].pre.services :
                          sv.name = get_service_name(v)
                          => sv \in services \cap req[p].pre.services

\* the stop of u found u's pod already deleted by the reaper, whose cycle
\* was due to tear u's session down, and deleted u's service itself, while
\* another user's session stayed
DoubleTeardownWitness ==
    \E p \in Watched :
        /\ Done(p) /\ req[p].op = "stop" /\ NoFault(p)
        /\ req[p].usr \in DueUsers
        /\ get_pod_name(req[p].usr) \in req[p].pre.workloads
        /\ Call("delete_pod", get_pod_name(req[p].usr), "404", FALSE)
               \in req[p].log
        /\ Call("delete_service", get_service_name(req[p].usr), "ok", TRUE)
               \in req[p].log
        /\ \E v \in ReaperUsers \ DueUsers :
              /\ NotDue(p, v)
              /\ WorkloadPresent(v) /\ ExposurePresent(v)

\* C25: the volumes built for a list of project grants carry different
\* names whenever they come from different (grant index, folder) pairs,
\* also for folders that differ only in upper case, space or dot; and a
\* grant with an empty base or an empty folder list yields no volume
MountNamesDistinct ==
    mounts.pc = "return"
    => LET v == mounts.volumes IN
       /\ \A i, j \in DOMAIN v :
             (v[i].idx # v[j].idx \/ v[i].folder # v[j].folder)
             => v[i].name # v[j].name
       /\ \A i \in DOMAIN v :
             LET g == mounts.projects[v[i].idx + 1] IN
             g.base # <<>> /\ g.folders # <<>>

\* C26: whatever launches and stops run next to the reaper, a pod that a
\* step of the reaper deletes is older than MAX_SESSION_DURATION when it is
\* deleted, and a service that a step of the reaper deletes does not belong
\* to a user whose pod is within its lifetime
ReaperOnlyExpired ==
    [][reaper' # reaper
       => /\ \A w \in pods :
               (\A x \in pods' : x.name # w.name)
               => w.age > MAX_SESSION_DURATION
          /\ \A sv \in services \ services' :
               \A w \in pods :
                   sv.name = get_service_name(w.user)
                   => w.age > MAX_SESSION_DURATION]_vars

\* C27: whatever launches and timers run next to each other, no delete call
\* removes a container that is running when the call is issued: a running
\* container is still there after every step
RunningNeverForceDeleted ==
    [][\A c \in containers :
          c.state = "running" => \E x \in containers' : x.name = c.name]_vars

\* C28: when a launch on the Kubernetes deployment answers ok with a port,
\* the user's service is bound to that port, whether the launch created the
\* service, found it, or was told that it already exists, and whatever
\* other launch of the user runs next to it
ReportedPortBound ==
    \A p \in Procs :
        (Done(p) /\ req[p].op = "launch" /\ engine = "k8s" /\ req[p].resp.ok)
        => [name |-> get_service_name(req[p].usr), port |-> req[p].resp.port]
               \in services

\* C29: a launch that answers ok:false leaves no workload it created in
\* that call: when its workload creation succeeded and a later step of the
\* call failed, no workload of the user is left without an exposure (on
\* Kubernetes) or left at all (on podman)
NoPartialSession ==
    \A p \in Procs :
        (Done(p) /\ req[p].op = "launch" /\ ~req[p].resp.ok
         /\ CreatedWorkload(p))
        => IF engine = "k8s"
           THEN WorkloadPresent(req[p].usr) => ExposurePresent(req[p].usr)
           ELSE ~WorkloadPresent(req[p].usr)

====
